---- MODULE Spec2Model ----
(***************************************************************************)
(* Model of src/streamlit_app.py: the cached feed fetch (fetch_feed), the  *)
(* parser of the linked documents (parse_warnings_advisories) and the      *)
(* module-level script that runs both and flattens the result.             *)
(*                                                                         *)
(* Time is counted in seconds.  A timestamp text is a record               *)
(* [form, wall, off]: the shape of the text, the wall-clock reading it     *)
(* spells and the UTC offset it spells.  Strings of the program that are   *)
(* not ASCII are written here by an ASCII name.                            *)
(***************************************************************************)
EXTENDS Integers, Sequences, FiniteSets, TLC

----------------------------------------------------------------------------
(* Program constants *)

\* @st.cache_data(ttl=600)
TTL == 600
\* timedelta(hours=hours_threshold): seconds in one hour
SecondsPerHour == 3600
\* the title "KishoTokubetsuKeiho-Keiho-Chuiho" compared at line 101
TargetTitle == "WarningsAdvisories"
\* the sentinel "N/A" of absent fields
NA == "N/A"

\* the synthetic fragments of parse_warnings_advisories
ParseErrorFragment == [Kind |-> "ParseError", Area |-> "ParseError", Detail |-> "XMLParseError"]
UnknownErrorFragment == [Kind |-> "Error", Area |-> "Error", Detail |-> "UnknownError"]
NoDataFragment == [Kind |-> "NoData", Area |-> "NoData", Detail |-> "OutOfWindowOrNotTargeted"]
FetchFailedFragment == [Kind |-> "FetchFailed", Area |-> "FetchFailed", Detail |-> "NoLinkedXML"]
FetchErrorFragment(err) == [Kind |-> "FetchError", Area |-> "FetchError", Detail |-> err]

----------------------------------------------------------------------------
(* Bounds of the model *)

\* entries in one list feed
MaxEntries == 2
\* Item elements in one detail document
MaxItems == 2
\* script runs in one behaviour
MaxRuns == 2
\* clock steps in one behaviour
MaxTicks == 2
\* seconds the clock advances in one step
Tick == 300

----------------------------------------------------------------------------
(* Values *)

\* Python None, and a dict key that was never set
None == "None"
Unset == "Unset"

\* the hours the number input is set to
Hours == {1, 2}

\* wall-clock readings: one older than every window, one that is inside the
\* one-hour window at time 0 and leaves it with the first clock step
OldWall == 0 - 3 * SecondsPerHour
EdgeWall == (Tick \div 2) - SecondsPerHour
JstOffset == 9 * SecondsPerHour

Stamp(form, wall, off) == [form |-> form, wall |-> wall, off |-> off]
\* entry_info["FeedReportDateTime"]: "N/A" when <updated> is absent, None when
\* it is empty, else its text
StampNA == Stamp("N/A", 0, 0)
StampNone == Stamp("None", 0, 0)
Stamps ==
    { StampNA, StampNone, Stamp("malformed", 0, 0),
      Stamp("z", OldWall, 0), Stamp("z", EdgeWall, 0),
      Stamp("offset", EdgeWall + JstOffset, JstOffset),
      Stamp("naive", EdgeWall, 0) }

Titles == {TargetTitle, "OtherTitle"}
\* <link type="application/xml">: absent, without an href, with an href
Links == {"none", "nohref", "href"}
\* str(e) of a failed request
RequestErrors == {"HTTPError", "Timeout"}

\* element text of a detail document: the element is absent, or it is empty,
\* or it has a text
NoElem == "<absent>"
EmptyText == ""

Item(kind, area, pref) == [kind |-> kind, area |-> area, pref |-> pref]
\* the bytes of a response: kind "doc" is a non-empty body, wf tells what
\* ET.fromstring does with it ("ok": it returns the tree, "malformed": it
\* raises ParseError, "other": it raises another exception), rdt is the text of its ReportDateTime element
\* (a timestamp text, form "absent" when there is no such element), enc whether the body is valid UTF-8 (the
\* invalid bytes of a body that is not sit in its headline text)
Bytes(kind, enc, wf, rdt, headline, items) ==
    [kind |-> kind, enc |-> enc, wf |-> wf, rdt |-> rdt, headline |-> headline,
     items |-> items]
NoRdt == Stamp("absent", 0, 0)
SomeRdt == Stamp("offset", 0, JstOffset)
NoBytes == Bytes("none", "utf8", "ok", NoRdt, NoElem, <<>>)
EmptyBytes == Bytes("empty", "utf8", "ok", NoRdt, NoElem, <<>>)
Doc(wf, rdt, headline, items) == Bytes("doc", "utf8", wf, rdt, headline, items)

\* the documents served in the pipeline specification
SmallDocs ==
    { Doc("malformed", NoRdt, NoElem, <<>>),
      Doc("ok", NoRdt, NoElem, <<>>),
      Doc("ok", SomeRdt, "H1", <<Item("K1", "A1", NoElem)>>) }

\* the documents served in the parser specification
ItemSeqs ==
    UNION { [1..n -> [kind : {NoElem, "K1", "K2"}, area : {NoElem, EmptyText, "A1"},
                      pref : {NoElem, "P1"}]] : n \in 0..MaxItems }
RichDocs ==
    [kind : {"doc"}, enc : {"utf8"}, wf : {"ok"}, rdt : {NoRdt, Stamp("None", 0, 0), SomeRdt},
     headline : {NoElem, EmptyText, "H1"}, items : ItemSeqs]
      \cup [kind : {"doc"}, enc : {"utf8", "bad"}, wf : {"malformed", "other"},
            rdt : {NoRdt}, headline : {NoElem}, items : {<<>>}]
      \cup [kind : {"doc"}, enc : {"bad"}, wf : {"ok"}, rdt : {SomeRdt},
            headline : {"H1"}, items : {<<>>, <<Item("K1", "A1", NoElem)>>}]

----------------------------------------------------------------------------
(* Timestamps *)

\* line 57 / 107: feed_report_time_str.endswith("Z")
EndsWithZ(s) == s.form = "z"
\* s[:-1] of a text that ends with Z
StripZ(s) == Stamp("naive", s.wall, 0)

\* datetime.fromisoformat: raises ValueError on a text that is no ISO time,
\* returns a naive datetime for a text without offset, an aware one otherwise
FromIsoformat(s) ==
    CASE s.form = "naive" -> [raised |-> FALSE, aware |-> FALSE, wall |-> s.wall, off |-> 0]
      [] s.form = "offset" -> [raised |-> FALSE, aware |-> TRUE, wall |-> s.wall, off |-> s.off]
      [] OTHER -> [raised |-> TRUE, aware |-> FALSE, wall |-> 0, off |-> 0]
\* .replace(tzinfo=timezone.utc)
ReplaceUtc(d) == [d EXCEPT !.aware = TRUE, !.off = 0]
\* the instant of an aware datetime
Instant(d) == d.wall - d.off

\* bool(feed_report_time_str): None and "" are falsy
Truthy(s) == s.form # "None"

\* lines 57-60 and 107-110: the datetime both stages build from a text
ParseStamp(s) ==
    IF EndsWithZ(s)
      THEN LET d == FromIsoformat(StripZ(s))
           IN IF d.raised THEN d ELSE ReplaceUtc(d)
      ELSE FromIsoformat(s)

\* feed_report_time < time_threshold: TypeError for a naive datetime
LessRaises(d) == ~d.aware
Less(d, threshold) == Instant(d) < threshold

\* datetime.now(timezone.utc) - timedelta(hours=hours_threshold)
TimeThreshold(t, h) == t - h * SecondsPerHour

----------------------------------------------------------------------------
(* fetch_feed, lines 26-86 *)

\* SkipByTime with the except clause setting the flag: fails closed
SkipByTimeFailClosed(s, threshold) ==
    IF Truthy(s) /\ s # StampNA
      THEN LET d == ParseStamp(s)
           IN IF d.raised \/ LessRaises(d) THEN TRUE ELSE Less(d, threshold)
      ELSE FALSE

\* lines 52-66: the entry is older than the threshold
SkipByTime(s, threshold) ==
    IF Truthy(s) /\ s # StampNA
      THEN LET d == ParseStamp(s)
           IN IF d.raised \/ LessRaises(d) THEN FALSE ELSE Less(d, threshold)
      ELSE FALSE

\* Requested without the flag skip_by_time in the condition of line 70
RequestedAnyAge(el, threshold) == el.link = "href"

\* lines 68-72: a request for the linked document is issued
Requested(el, threshold) ==
    el.link = "href" /\ ~SkipByTime(el.updated, threshold)

\* lines 73-74: the requests.get calls made for an entry element (no retry)
DetailCalls(el, threshold) == IF Requested(el, threshold) THEN 1 ELSE 0

\* what one pass of the loop is seen to do: the element visited, its link,
\* whether and how often its linked document was requested
Visit(el, threshold) ==
    [el |-> el, link |-> el.link, requested |-> Requested(el, threshold),
     calls |-> DetailCalls(el, threshold)]

\* lines 43-50: the entry_info of an entry element
EntryInfo(el) ==
    [EntryID |-> el.id, FeedReportDateTime |-> el.updated, FeedTitle |-> el.title,
     Author |-> el.author, LinkedXMLData |-> NoBytes, LinkedXMLUrl |-> None,
     LinkedXMLError |-> Unset]

\* lines 73-80: the entry_info after the request; resp is the response
\* [ok, content, err]
WithResponse(info, resp) ==
    IF resp.ok
      THEN [info EXCEPT !.LinkedXMLData = resp.content, !.LinkedXMLUrl = "url"]
      ELSE [info EXCEPT !.LinkedXMLData = NoBytes, !.LinkedXMLError = resp.err]

\* lines 42-81: one pass of the loop over the entry elements
ProcessEntry(el, resp, threshold) ==
    IF Requested(el, threshold)
      THEN WithResponse(EntryInfo(el), resp)
      ELSE EntryInfo(el)

\* Fetched with the except clause of line 83 recording nothing
FetchedNoError(main, entries, error) ==
    [main_feed_xml |-> main, linked_entries_xml |-> entries, error |-> Unset]

\* line 31 and lines 83-84: the dict fetch_feed builds
Fetched(main, entries, error) ==
    [main_feed_xml |-> main, linked_entries_xml |-> entries, error |-> error]

----------------------------------------------------------------------------
(* parse_warnings_advisories, lines 88-182 *)

NoTime == [none |-> TRUE, aware |-> FALSE, wall |-> 0, off |-> 0]
SomeTime(d) == [none |-> FALSE, aware |-> d.aware, wall |-> d.wall, off |-> d.off]

\* lines 105-114: feed_time, None when the text is falsy or does not parse
FeedTime(s) ==
    IF Truthy(s)
      THEN LET d == ParseStamp(s)
           IN IF d.raised THEN NoTime ELSE SomeTime(d)
      ELSE NoTime

\* Decision without the title check of line 101
DecisionAnyTitle(e, threshold) ==
    LET ft == FeedTime(e.FeedReportDateTime)
    IN IF ft.none THEN "process"
       ELSE IF LessRaises(ft) THEN "raise"
       ELSE IF Less(ft, threshold) THEN "skip_time"
       ELSE "process"

\* lines 99-117: what the loop does with an entry before it reads the bytes:
\* "skip_title" and "skip_time" are the two continue statements, "raise" is
\* the TypeError of the comparison at line 116, "process" goes on
Decision(e, threshold) ==
    IF e.FeedTitle # TargetTitle
      THEN "skip_title"
      ELSE LET ft == FeedTime(e.FeedReportDateTime)
           IN IF ft.none THEN "process"
              ELSE IF LessRaises(ft) THEN "raise"
              ELSE IF Less(ft, threshold) THEN "skip_time"
              ELSE "process"

\* bool(entry.get("LinkedXMLData")): None and b"" are falsy
DataPresent(b) == b.kind = "doc"

\* lines 133-136: strict decoding, and decoding with replacement when it fails
DecodeRaises(b) == b.enc # "utf8"
DecodeReplace(b) == [b EXCEPT !.enc = "utf8", !.headline = "U+FFFD"]
Decode(b) == IF DecodeRaises(b) THEN DecodeReplace(b) ELSE b

\* x.text if x is not None and x.text else "N/A"
TextOrNA(el) == IF el = NoElem \/ el = EmptyText THEN NA ELSE el

\* lines 152-155: Area/Name, and Prefecture/Name when there is no Area/Name
AreaEl(item) == IF item.area = NoElem THEN item.pref ELSE item.area

\* ItemFragments with "and" for the "or" of line 160
ItemFragmentsBoth(item, detail) ==
    LET kind == TextOrNA(item.kind)
        area == TextOrNA(AreaEl(item))
    IN IF kind # NA /\ area # NA
         THEN << [Kind |-> kind, Area |-> area, Detail |-> detail] >>
         ELSE << >>

\* lines 157-161: the fragment of one Item, none when kind and area are N/A
ItemFragments(item, detail) ==
    LET kind == TextOrNA(item.kind)
        area == TextOrNA(AreaEl(item))
    IN IF kind # NA \/ area # NA
         THEN << [Kind |-> kind, Area |-> area, Detail |-> detail] >>
         ELSE << >>

\* ItemsFragments with find for findall: the first Item only
ItemsFragmentsFirst(items, detail) ==
    IF items = << >> THEN << >>
    ELSE ItemFragments(Head(items), detail)

RECURSIVE ItemsFragments(_, _)
\* lines 149-161: the loop over the Item elements, in document order
ItemsFragments(items, detail) ==
    IF items = << >> THEN << >>
    ELSE ItemFragments(Head(items), detail) \o ItemsFragments(Tail(items), detail)

\* lines 145-146: overall_detail
OverallDetail(doc) == TextOrNA(doc.headline)

\* ParsedWarnings with the except clauses of lines 162-165 in the other order
ParsedWarningsAnyError(b) ==
    LET doc == Decode(b)
    IN CASE doc.wf = "malformed" -> << UnknownErrorFragment >>
         [] doc.wf = "other" -> << UnknownErrorFragment >>
         [] OTHER -> ItemsFragments(doc.items, OverallDetail(doc))

\* lines 137-165: the fragments of bytes that are present
ParsedWarnings(b) ==
    LET doc == Decode(b)
    IN CASE doc.wf = "malformed" -> << ParseErrorFragment >>
         [] doc.wf = "other" -> << UnknownErrorFragment >>
         [] OTHER -> ItemsFragments(doc.items, OverallDetail(doc))

\* lines 166-173: the fragment of an entry without bytes
MissingWarnings(e) ==
    IF e.LinkedXMLError # Unset /\ e.LinkedXMLError # EmptyText
      THEN << FetchErrorFragment(e.LinkedXMLError) >>
    ELSE IF ~DataPresent(e.LinkedXMLData)
      THEN << NoDataFragment >>
      ELSE << FetchFailedFragment >>

\* lines 128-173: the list warnings of an entry
Warnings(e) ==
    IF DataPresent(e.LinkedXMLData)
      THEN ParsedWarnings(e.LinkedXMLData)
      ELSE MissingWarnings(e)

\* lines 130, 140-142: report_dt
ReportDt(e) ==
    LET b == e.LinkedXMLData
    IN IF DataPresent(b) /\ Decode(b).wf = "ok"
            /\ Decode(b).rdt # NoRdt /\ Truthy(Decode(b).rdt)
         THEN Decode(b).rdt
         ELSE e.FeedReportDateTime

\* Gate without the second condition of line 177
GateAnyWarnings(e) == Warnings(e) # << >>

\* line 177: the entry is appended to parsed
Gate(e) == Warnings(e) # << >> /\ DataPresent(e.LinkedXMLData)

\* lines 119-126 and 178-180: the dict appended to parsed
Extracted(e) ==
    [EntryID |-> e.EntryID, FeedReportDateTime |-> e.FeedReportDateTime,
     FeedTitle |-> e.FeedTitle, Author |-> e.Author,
     LinkedXMLDataPresent |-> DataPresent(e.LinkedXMLData),
     LinkedXMLUrl |-> e.LinkedXMLUrl,
     ReportDateTime |-> ReportDt(e), WarningsAdvisories |-> Warnings(e)]

RECURSIVE ParsedFrom(_, _)
\* lines 98-180: the list parsed of a run of the loop that does not raise
ParsedFrom(entries, threshold) ==
    IF entries = << >> THEN << >>
    ELSE LET e == Head(entries)
             rest == ParsedFrom(Tail(entries), threshold)
         IN IF Decision(e, threshold) = "process" /\ Gate(e)
              THEN << Extracted(e) >> \o rest
              ELSE rest

RECURSIVE WarningsLog(_, _)
\* lines 128-173: the list warnings of every entry the loop does not skip
WarningsLog(entries, threshold) ==
    IF entries = << >> THEN << >>
    ELSE LET e == Head(entries)
             rest == WarningsLog(Tail(entries), threshold)
         IN IF Decision(e, threshold) = "process"
              THEN << [EntryID |-> e.EntryID, warnings |-> Warnings(e)] >> \o rest
              ELSE rest

\* the loop raises at the first entry whose comparison raises
ParseRaises(entries, threshold) ==
    \E i \in 1..Len(entries) : Decision(entries[i], threshold) = "raise"

\* lines 88-182: [raised, parsed]
ParseWarningsAdvisories(fetched_data, hours_threshold, t) ==
    LET threshold == TimeThreshold(t, hours_threshold)
        entries == fetched_data.linked_entries_xml
    IN IF entries = << >> THEN [raised |-> FALSE, parsed |-> << >>]
       ELSE IF ParseRaises(entries, threshold) THEN [raised |-> TRUE, parsed |-> << >>]
       ELSE [raised |-> FALSE, parsed |-> ParsedFrom(entries, threshold)]

----------------------------------------------------------------------------
(* the script, lines 200-241 *)

\* lines 233-241: the rows of one parsed entry
Rows(p, was) ==
    [i \in 1..Len(was) |->
        [ReportDateTime |-> p.ReportDateTime, Title |-> p.FeedTitle,
         Author |-> p.Author, Kind |-> was[i].Kind, Area |-> was[i].Area,
         Detail |-> was[i].Detail, EntryID |-> p.EntryID]]

RECURSIVE Transformed(_)
\* lines 227-241: transformed_data_for_db
Transformed(parsed) ==
    IF parsed = << >> THEN << >>
    ELSE Rows(Head(parsed), Head(parsed).WarningsAdvisories) \o Transformed(Tail(parsed))

----------------------------------------------------------------------------
(* State *)

VARIABLES
    now,        \* the clock, datetime.now(timezone.utc)
    ticks,      \* clock steps taken
    hours,      \* the value of the number input
    cache,      \* the entry st.cache_data holds for fetch_feed
    pc,         \* where the script is
    runs,       \* script runs started
    runStart,   \* the clock when the current run started
    cleared,    \* the cache was cleared since the current run started
    threshold,  \* time_threshold of the fetch_feed call in progress
    todo,       \* entry elements the loop of fetch_feed has still to visit
    fetched,    \* the dict fetched of the fetch_feed call in progress
    netCalls,   \* requests.get calls of the current run
    reqLog,     \* per entry element the current fetch visited: the element and the requests made for it
    data,       \* the module variable data
    parsedAt,   \* the clock when parse_warnings_advisories was called
    result,     \* what parse_warnings_advisories did: [raised, parsed]
    computed,   \* per entry that reached line 176: its id and its list warnings
    records,    \* transformed_data_for_db
    prev        \* the run before the current one

vars ==
    << now, ticks, hours, cache, pc, runs, runStart, cleared, threshold, todo,
       fetched, netCalls, reqLog, data, parsedAt, result, computed, records,
       prev >>

EmptyFetched == Fetched(FALSE, << >>, Unset)
NoCache == [valid |-> FALSE, key |-> 0, value |-> EmptyFetched, storedAt |-> 0]
NoResult == [raised |-> FALSE, parsed |-> << >>]
NoPrev ==
    [valid |-> FALSE, start |-> 0, cachedAt |-> 0, cleared |-> FALSE, hours |-> 0,
     kept |-> FALSE, data |-> EmptyFetched, raised |-> FALSE, records |-> << >>]

\* CacheHit with the comparison of the age turned around
CacheHitWhenOlder(c, h, t) == c.valid /\ c.key = h /\ t - c.storedAt > TTL

\* st.cache_data: the entry of the key (url, hours_threshold) is used while it
\* is younger than ttl
CacheHit(c, h, t) == c.valid /\ c.key = h /\ t - c.storedAt < TTL
CacheStore(value, h, t) == [valid |-> TRUE, key |-> h, value |-> value, storedAt |-> t]

\* the entry elements a list feed may hold at position i
Elements(i) ==
    [id : {i}, updated : Stamps, title : Titles, author : {"JMA"}, link : Links]
\* the responses to a request for a linked document
Responses(docs) ==
    [ok : {TRUE}, content : docs \cup {EmptyBytes}, err : {Unset}]
      \cup [ok : {FALSE}, content : {NoBytes}, err : RequestErrors]

Init ==
    /\ now = 0
    /\ ticks = 0
    /\ hours \in Hours
    /\ cache = NoCache
    /\ pc = "idle"
    /\ runs = 0
    /\ runStart = 0
    /\ cleared = FALSE
    /\ threshold = 0
    /\ todo = 0
    /\ fetched = EmptyFetched
    /\ netCalls = 0
    /\ reqLog = << >>
    /\ data = EmptyFetched
    /\ parsedAt = 0
    /\ result = NoResult
    /\ computed = << >>
    /\ records = << >>
    /\ prev = NoPrev

----------------------------------------------------------------------------
(* Actions *)

\* the run that ended, as the next run remembers it: when it started, what
\* age its cache entry had and whether the cache was cleared after it; and,
\* when the next run reuses its data (kept), its data and its outcome
Ended(kept) ==
    [valid |-> runs > 0, start |-> runStart, cachedAt |-> cache.storedAt,
     cleared |-> cleared, hours |-> hours, kept |-> kept,
     data |-> IF kept THEN data ELSE EmptyFetched,
     raised |-> IF kept THEN result.raised ELSE FALSE,
     records |-> IF kept THEN records ELSE << >>]

\* line 200, the cached value is used: fetch_feed is not run
RunHit ==
    /\ pc = "idle" /\ runs < MaxRuns
    /\ CacheHit(cache, hours, now)
    /\ prev' = Ended(TRUE)
    /\ data' = cache.value
    /\ pc' = "fetched"
    /\ runs' = runs + 1
    /\ runStart' = now
    /\ cleared' = FALSE
    /\ netCalls' = 0
    /\ reqLog' = << >>
    /\ parsedAt' = 0
    /\ result' = NoResult
    /\ computed' = << >>
    /\ records' = << >>
    /\ UNCHANGED << now, ticks, hours, cache, threshold, todo, fetched >>

\* line 200, no usable cached value: fetch_feed runs, lines 31-41.  The list
\* request fails (transport, timeout, status), or its body is no XML
\* document, or it is a feed of n entries
RunMiss ==
    /\ pc = "idle" /\ runs < MaxRuns
    /\ ~CacheHit(cache, hours, now)
    /\ prev' = Ended(FALSE)
    /\ cache' = NoCache
    /\ data' = EmptyFetched
    /\ runs' = runs + 1
    /\ runStart' = now
    /\ cleared' = FALSE
    /\ netCalls' = 1
    /\ reqLog' = << >>
    /\ parsedAt' = 0
    /\ result' = NoResult
    /\ computed' = << >>
    /\ records' = << >>
    /\ threshold' = TimeThreshold(now, hours)
    /\ \/ \E err \in RequestErrors :
            /\ fetched' = Fetched(FALSE, << >>, err)
            /\ todo' = 0
            /\ pc' = "return"
       \/ /\ fetched' = Fetched(TRUE, << >>, "ParseError")
          /\ todo' = 0
          /\ pc' = "return"
       \/ \E n \in 0..MaxEntries :
            /\ fetched' = Fetched(TRUE, << >>, Unset)
            /\ todo' = n
            /\ pc' = "loop"
    /\ UNCHANGED << now, ticks, hours >>

\* lines 42-81: the loop visits the next entry element
FetchEntry ==
    /\ pc = "loop" /\ todo > 0
    /\ \E el \in Elements(Len(fetched.linked_entries_xml) + 1), resp \in Responses(SmallDocs) :
         /\ fetched' = [fetched EXCEPT !.linked_entries_xml =
                            Append(@, ProcessEntry(el, resp, threshold))]
         /\ netCalls' = netCalls + DetailCalls(el, threshold)
         /\ reqLog' = Append(reqLog, Visit(el, threshold))
    /\ todo' = todo - 1
    /\ UNCHANGED << now, ticks, hours, cache, pc, runs, runStart, cleared,
                    threshold, data, parsedAt, result, computed, records,
                    prev >>

\* line 86 and line 200: fetch_feed returns, the value is cached and assigned
FetchReturn ==
    /\ \/ pc = "loop" /\ todo = 0
       \/ pc = "return"
    /\ data' = fetched
    /\ cache' = CacheStore(fetched, hours, now)
    /\ fetched' = EmptyFetched
    /\ threshold' = 0
    /\ pc' = "fetched"
    /\ UNCHANGED << now, ticks, hours, runs, runStart, cleared, todo,
                    netCalls, reqLog, parsedAt, result, computed, records, prev >>

\* line 225: parse_warnings_advisories(data, hours_threshold=hours)
ParseCall ==
    /\ pc = "fetched"
    /\ result' = ParseWarningsAdvisories(data, hours, now)
    /\ parsedAt' = now
    /\ computed' = IF result'.raised THEN << >>
                   ELSE WarningsLog(data.linked_entries_xml, TimeThreshold(now, hours))
    /\ pc' = IF result'.raised THEN "crashed" ELSE "parsed"
    /\ UNCHANGED << now, ticks, hours, cache, runs, runStart, cleared, threshold,
                    todo, fetched, netCalls, reqLog, data, records, prev >>

\* lines 227-241: the rows are collected
Flatten ==
    /\ pc = "parsed"
    /\ records' = Transformed(result.parsed)
    /\ pc' = "done"
    /\ UNCHANGED << now, ticks, hours, cache, runs, runStart, cleared, threshold,
                    todo, fetched, netCalls, reqLog, data, parsedAt, result,
                    computed, prev >>

\* a widget event reruns the script
Rerun ==
    /\ pc \in {"done", "crashed"} /\ runs < MaxRuns
    /\ pc' = "idle"
    /\ UNCHANGED << now, ticks, hours, cache, runs, runStart, cleared, threshold,
                    todo, fetched, netCalls, reqLog, data, parsedAt, result,
                    computed, records, prev >>

\* lines 192-195: the button clears the cache and reruns the script
ClearCache ==
    /\ pc \in {"done", "crashed"} /\ runs < MaxRuns
    /\ cache' = NoCache
    /\ cleared' = TRUE
    /\ pc' = "idle"
    /\ UNCHANGED << now, ticks, hours, runs, runStart, threshold, todo, fetched,
                    netCalls, reqLog, data, parsedAt, result, computed, records,
                    prev >>

\* time passes between runs, and between fetch_feed and the parser
TickClock ==
    /\ pc \in {"idle", "fetched"} /\ ticks < MaxTicks
    /\ now' = now + Tick
    /\ ticks' = ticks + 1
    /\ UNCHANGED << hours, cache, pc, runs, runStart, cleared, threshold, todo,
                    fetched, netCalls, reqLog, data, parsedAt, result, computed,
                    records, prev >>

Next ==
    \/ RunHit
    \/ RunMiss
    \/ FetchEntry
    \/ FetchReturn
    \/ ParseCall
    \/ Flatten
    \/ Rerun
    \/ ClearCache
    \/ TickClock

Spec == Init /\ [][Next]_vars

----------------------------------------------------------------------------
(* The parser on one fetched entry: the state after a run whose fetch_feed    *)
(* call at time 0 found a feed of one entry, with the parser called at once  *)
(* or one clock step later                                                   *)

InitParse ==
    /\ now \in {0, Tick}
    /\ ticks = now \div Tick
    /\ hours \in Hours
    /\ pc = "fetched"
    /\ runs = 1
    /\ runStart = 0
    /\ cleared = FALSE
    /\ threshold = 0
    /\ todo = 0
    /\ fetched = EmptyFetched
    /\ \E el \in Elements(1), resp \in Responses(RichDocs) :
         /\ el.link # "nohref"
         /\ data = Fetched(TRUE, << ProcessEntry(el, resp, TimeThreshold(0, hours)) >>, Unset)
         /\ netCalls = 1 + DetailCalls(el, TimeThreshold(0, hours))
         /\ reqLog = << Visit(el, TimeThreshold(0, hours)) >>
    /\ cache = CacheStore(data, hours, 0)
    /\ parsedAt = 0
    /\ result = NoResult
    /\ computed = << >>
    /\ records = << >>
    /\ prev = NoPrev

NextParse ==
    \/ ParseCall
    \/ Flatten

SpecParse == InitParse /\ [][NextParse]_vars

----------------------------------------------------------------------------
(* What the properties speak of *)

\* the entries of the fetch in progress or of the value it returned
CurFetched == IF pc \in {"loop", "return"} THEN fetched ELSE data
Entries == data.linked_entries_xml

\* a timestamp text that names an instant, and the instant it names
Determinate(s) == s.form \in {"z", "offset"}
InstantOf(s) == IF s.form = "z" THEN s.wall ELSE s.wall - s.off
\* a timestamp text that is absent, empty or no ISO time
Unparseable(s) == s.form \in {"N/A", "None", "malformed"}
\* the text names an instant older than t minus h hours
StaleAt(s, t, h) == Determinate(s) /\ InstantOf(s) < t - h * SecondsPerHour

\* the output rows of the entry with id i
RowsOf(i) == SelectSeq(records, LAMBDA r : r.EntryID = i)
\* the entry with id i was appended to parsed
InParsed(i) == \E k \in 1..Len(result.parsed) : result.parsed[k].EntryID = i

SyntheticKinds == {"ParseError", "Error", "FetchError", "NoData", "FetchFailed"}
Synthetic(f) == f.Kind \in SyntheticKinds /\ f.Area = f.Kind

PresentText(t) == t # NoElem /\ t # EmptyText
\* an Item that names a kind or an area
UsableItem(it) ==
    \/ PresentText(it.kind)
    \/ PresentText(it.area)
    \/ it.area = NoElem /\ PresentText(it.pref)
\* the bytes are a well-formed document
WellFormed(b) == b.kind = "doc" /\ b.wf = "ok"
HasUsableItem(b) ==
    WellFormed(b) /\ \E k \in 1..Len(b.items) : UsableItem(b.items[k])
\* the headline text the fragments of a document carry
HeadlineOf(b) ==
    IF b.enc = "bad" THEN "U+FFFD"
    ELSE IF PresentText(b.headline) THEN b.headline ELSE NA

----------------------------------------------------------------------------
(* C1 *)

\* C1: at the end of a run, every entry with the target title and a
\* timestamp inside the window whose detail request failed has exactly one
\* output row, with Kind and Area the fetch-error sentinel and Detail the
\* recorded error text.
C1_FetchErrorRowEmitted ==
    pc = "done" =>
      \A i \in 1..Len(Entries) :
        LET e == Entries[i]
        IN (/\ e.FeedTitle = TargetTitle
            /\ Determinate(e.FeedReportDateTime)
            /\ ~StaleAt(e.FeedReportDateTime, parsedAt, hours)
            /\ e.LinkedXMLError \in RequestErrors)
           => /\ Len(RowsOf(i)) = 1
              /\ RowsOf(i)[1].Kind = "FetchError"
              /\ RowsOf(i)[1].Area = "FetchError"
              /\ RowsOf(i)[1].Detail = e.LinkedXMLError

----------------------------------------------------------------------------
(* C2 *)

\* the current run and the one before it used the same key, the cache was
\* not cleared between them, and the current one started less than TTL
\* after the previous one started
C2_TwoRunsWithinTtl ==
    /\ prev.valid /\ ~prev.cleared /\ prev.hours = hours
    /\ runStart - prev.start < TTL

\* C2 as stated: the second of two such runs issues no request and returns
\* the record sequence of the first, however far the clock advanced.
C2_SecondRunIdentical ==
    (pc = "done" /\ C2_TwoRunsWithinTtl) =>
      /\ netCalls = 0
      /\ prev.kept
      /\ records = prev.records

\* the current run started less than TTL after the value the previous run
\* used was cached
C2_TwoRunsWithinCacheAge ==
    /\ prev.valid /\ ~prev.cleared /\ prev.hours = hours
    /\ runStart - prev.cachedAt < TTL

\* the row belongs to an entry the parser does not skip at the time of the
\* current run
C2_StillInWindow(r) ==
    ~StaleAt(Entries[r.EntryID].FeedReportDateTime, parsedAt, hours)

\* C2 amended: the second run issues no request and parses the very value
\* the first run used; it raises exactly when the first raised; and its
\* records are the records of the first run without the rows of the entries
\* whose timestamp is older than the threshold by now (identical when there
\* is no such entry).
C2_SecondRunFromCache ==
    (pc # "idle" /\ C2_TwoRunsWithinCacheAge) =>
      /\ netCalls = 0
      /\ prev.kept
      /\ data = prev.data
      /\ (pc = "crashed" => prev.raised)
      /\ (pc \in {"parsed", "done"} => ~prev.raised)
      /\ (pc = "done" => records = SelectSeq(prev.records, C2_StillInWindow))

\* a second run within the age of the cache that lost a row of the first
\* and kept another
C2_Witness ==
    /\ pc = "done" /\ C2_TwoRunsWithinCacheAge
    /\ records # << >>
    /\ Len(records) < Len(prev.records)

----------------------------------------------------------------------------
(* C3 *)

\* C3: fetch_feed followed by parse_warnings_advisories never raises.
C3_NeverRaises == pc # "crashed"

----------------------------------------------------------------------------
(* C4 *)

\* C4: an entry whose timestamp does not parse is requested in fetch_feed
\* when it has a link with an href, and the parser does not skip it (it
\* reaches line 176); the parser skips an entry with the target title only
\* when its timestamp names an instant older than now minus hours_threshold.
C4_UnparseableNeverExcluded ==
    /\ \A i \in 1..Len(reqLog) :
         (Unparseable(CurFetched.linked_entries_xml[i].FeedReportDateTime)
            /\ reqLog[i].link = "href")
         => reqLog[i].requested
    /\ pc \in {"parsed", "done"} =>
         \A i \in 1..Len(Entries) :
           LET e == Entries[i]
               target == e.FeedTitle = TargetTitle
               reached == \E k \in 1..Len(computed) : computed[k].EntryID = i
           IN /\ (target /\ Unparseable(e.FeedReportDateTime)) => reached
              /\ (target /\ ~reached) => StaleAt(e.FeedReportDateTime, parsedAt, hours)

\* an entry with an unparseable timestamp was requested and has output rows
C4_Witness ==
    /\ pc = "done"
    /\ \E i \in 1..Len(reqLog) :
         /\ Unparseable(Entries[i].FeedReportDateTime)
         /\ reqLog[i].requested
         /\ RowsOf(i) # << >>

----------------------------------------------------------------------------
(* C5 *)

\* C5: every output row comes from an entry with the target title whose
\* detail document was fetched, its timestamp not older than the threshold
\* of that fetch; an entry with another title has no fragment and no row.
C5_RowsOnlyFromTargetFetched ==
    /\ pc = "done" =>
         \A k \in 1..Len(records) :
           LET r == records[k]
               e == Entries[r.EntryID]
           IN /\ r.Title = TargetTitle
              /\ e.FeedTitle = TargetTitle
              /\ e.LinkedXMLData.kind = "doc"
              /\ e.LinkedXMLUrl = "url"
              /\ ~StaleAt(e.FeedReportDateTime, cache.storedAt, hours)
              /\ (reqLog # << >> => reqLog[r.EntryID].requested)
    /\ pc \in {"parsed", "done"} =>
         \A i \in 1..Len(Entries) :
           Entries[i].FeedTitle # TargetTitle =>
             /\ \A k \in 1..Len(computed) : computed[k].EntryID # i
             /\ ~InParsed(i)
             /\ (pc = "done" => RowsOf(i) = << >>)

\* a run with output rows and an entry of another title whose document has
\* an Item
C5_Witness ==
    /\ pc = "done"
    /\ records # << >>
    /\ \E i \in 1..Len(Entries) :
         /\ Entries[i].FeedTitle # TargetTitle
         /\ HasUsableItem(Entries[i].LinkedXMLData)

----------------------------------------------------------------------------
(* C6 *)

\* the entry has the target title, the parser does not skip it, and its
\* document is well-formed with a kind name and an area name in every Item
C6_AllItemsNamed(e) ==
    /\ e.FeedTitle = TargetTitle
    /\ ~StaleAt(e.FeedReportDateTime, parsedAt, hours)
    /\ WellFormed(e.LinkedXMLData)
    /\ \A k \in 1..Len(e.LinkedXMLData.items) :
         /\ PresentText(e.LinkedXMLData.items[k].kind)
         /\ PresentText(e.LinkedXMLData.items[k].area)

\* C6: such an entry with N Items has N fragments and N rows, in document
\* order, the k-th with the kind and area of the k-th Item, all with the
\* headline text of the document ("N/A" without one) as Detail.
C6_OneFragmentPerItem ==
    pc = "done" =>
      \A i \in 1..Len(Entries) :
        LET e == Entries[i]
            items == e.LinkedXMLData.items
        IN C6_AllItemsNamed(e) =>
             /\ \E k \in 1..Len(computed) :
                  /\ computed[k].EntryID = i
                  /\ Len(computed[k].warnings) = Len(items)
             /\ Len(RowsOf(i)) = Len(items)
             /\ \A k \in 1..Len(items) :
                  /\ RowsOf(i)[k].Kind = items[k].kind
                  /\ RowsOf(i)[k].Area = items[k].area
                  /\ RowsOf(i)[k].Detail = HeadlineOf(e.LinkedXMLData)

\* a document of two different Items, both named, was parsed
C6_Witness ==
    /\ pc = "done"
    /\ \E i \in 1..Len(Entries) :
         /\ C6_AllItemsNamed(Entries[i])
         /\ Len(Entries[i].LinkedXMLData.items) >= 2
         /\ Entries[i].LinkedXMLData.items[1] # Entries[i].LinkedXMLData.items[2]
         /\ Len(RowsOf(i)) >= 2

----------------------------------------------------------------------------
(* C7 *)

\* the entry has the target title, the parser does not skip it, and its
\* bytes are non-empty and not a well-formed document
C7_Malformed(e) ==
    /\ e.FeedTitle = TargetTitle
    /\ ~StaleAt(e.FeedReportDateTime, parsedAt, hours)
    /\ e.LinkedXMLData.kind = "doc"
    /\ e.LinkedXMLData.wf = "malformed"

\* C7: such an entry has exactly one fragment, with Kind and Area the
\* parse-error sentinel, and exactly that row in the output.
C7_OneParseErrorRow ==
    pc = "done" =>
      \A i \in 1..Len(Entries) :
        C7_Malformed(Entries[i]) =>
          /\ \E k \in 1..Len(computed) :
               /\ computed[k].EntryID = i
               /\ Len(computed[k].warnings) = 1
               /\ computed[k].warnings[1].Kind = "ParseError"
               /\ computed[k].warnings[1].Area = "ParseError"
          /\ Len(RowsOf(i)) = 1
          /\ RowsOf(i)[1].Kind = "ParseError"
          /\ RowsOf(i)[1].Area = "ParseError"

C7_Witness ==
    /\ pc = "done"
    /\ \E i \in 1..Len(Entries) : C7_Malformed(Entries[i]) /\ RowsOf(i) # << >>

----------------------------------------------------------------------------
(* C8 *)

\* C8: when the list request fails, fetch_feed goes on to return with the
\* error set, no entry and no detail request; and whenever the error is
\* set, in the dict under construction or in the value returned, the entry
\* list is empty and the list request was the only one.
C8_ErrorMeansNoEntries ==
    /\ pc = "return" => CurFetched.error # Unset
    /\ CurFetched.error # Unset =>
         /\ CurFetched.linked_entries_xml = << >>
         /\ reqLog = << >>
         /\ netCalls <= 1

\* fetch_feed returned after a failed list request
C8_Witness ==
    /\ pc = "fetched"
    /\ data.error \in RequestErrors
    /\ netCalls = 1
    /\ Entries = << >>

----------------------------------------------------------------------------
(* C9 *)

\* the entry has the target title and passes the time check of the parser
C9_Processed(e) ==
    /\ e.FeedTitle = TargetTitle
    /\ ~StaleAt(e.FeedReportDateTime, parsedAt, hours)

\* C9 as stated: an entry that is processed has exactly one synthetic
\* fragment when it has no per-item fragment, and no synthetic fragment
\* when it has one.
C9_OneSyntheticWhenNoItem ==
    pc \in {"parsed", "done"} =>
      \A i \in 1..Len(Entries) :
        C9_Processed(Entries[i]) =>
          \E k \in 1..Len(computed) :
            LET w == computed[k].warnings
            IN /\ computed[k].EntryID = i
               /\ IF HasUsableItem(Entries[i].LinkedXMLData)
                    THEN w # << >> /\ \A j \in 1..Len(w) : ~Synthetic(w[j])
                    ELSE Len(w) = 1 /\ Synthetic(w[1])

\* C9 amended: exactly one synthetic fragment when the entry has no bytes
\* or its bytes are not a well-formed document; no fragment at all when the
\* document is well-formed without an Item that names a kind or an area;
\* and only per-item fragments when there is such an Item.
C9_SyntheticOnlyWithoutDocument ==
    pc \in {"parsed", "done"} =>
      \A i \in 1..Len(Entries) :
        C9_Processed(Entries[i]) =>
          \E k \in 1..Len(computed) :
            LET w == computed[k].warnings
                b == Entries[i].LinkedXMLData
            IN /\ computed[k].EntryID = i
               /\ IF HasUsableItem(b)
                    THEN w # << >> /\ \A j \in 1..Len(w) : ~Synthetic(w[j])
                    ELSE IF WellFormed(b) THEN w = << >>
                    ELSE Len(w) = 1 /\ Synthetic(w[1])

\* a well-formed document whose Items name neither kind nor area gave no
\* fragment
C9_Witness ==
    /\ pc \in {"parsed", "done"}
    /\ \E k \in 1..Len(computed) :
         LET b == Entries[computed[k].EntryID].LinkedXMLData
         IN /\ WellFormed(b) /\ b.items # << >> /\ ~HasUsableItem(b)
            /\ computed[k].warnings = << >>

----------------------------------------------------------------------------
(* C10 *)

\* C10: an entry is in parsed only with a fragment and with bytes; an entry
\* without bytes has no output row, and no row carries the no-data, the
\* fetch-failed or the fetch-error sentinel.
C10_NoRowWithoutBytes ==
    /\ pc \in {"parsed", "done"} =>
         /\ \A k \in 1..Len(result.parsed) :
              /\ result.parsed[k].WarningsAdvisories # << >>
              /\ Entries[result.parsed[k].EntryID].LinkedXMLData.kind = "doc"
         /\ \A i \in 1..Len(Entries) :
              Entries[i].LinkedXMLData.kind # "doc" => ~InParsed(i)
    /\ pc = "done" =>
         /\ \A i \in 1..Len(Entries) :
              Entries[i].LinkedXMLData.kind # "doc" => RowsOf(i) = << >>
         /\ \A k \in 1..Len(records) :
              records[k].Kind \notin {"NoData", "FetchFailed", "FetchError"}

\* a fetch-error fragment was computed for an entry that has no row
C10_Witness ==
    /\ pc = "done"
    /\ \E k \in 1..Len(computed) :
         /\ computed[k].warnings # << >>
         /\ computed[k].warnings[1].Kind = "FetchError"
         /\ RowsOf(computed[k].EntryID) = << >>

----------------------------------------------------------------------------
(* C11 *)

RECURSIVE C11_Calls(_)
\* the detail requests of the visits in a log
C11_Calls(log) ==
    IF log = << >> THEN 0 ELSE Head(log).calls + C11_Calls(Tail(log))

\* the current run fetched a feed from the network: the list request
\* succeeded and its body was a feed
C11_FeedFetched == netCalls > 0 /\ CurFetched.error = Unset

\* C11: in a fetch whose list request succeeds, the entry list holds the
\* entry elements visited so far, each once and in feed order, and when
\* fetch_feed has returned all of them; an element is requested at most
\* once, and only with a link that has an href and a timestamp that does not
\* name an instant older than the threshold; an element whose timestamp
\* does has no bytes, no URL and no error in the list.
C11_EveryEntryListedOnce ==
    C11_FeedFetched =>
      LET es == CurFetched.linked_entries_xml
      IN /\ Len(es) = Len(reqLog)
         /\ pc # "loop" => todo = 0
         /\ netCalls = 1 + C11_Calls(reqLog)
         /\ \A i \in 1..Len(reqLog) :
              LET el == reqLog[i].el
              IN /\ el.id = i
                 /\ es[i].EntryID = el.id
                 /\ es[i].FeedReportDateTime = el.updated
                 /\ es[i].FeedTitle = el.title
                 /\ es[i].Author = el.author
                 /\ reqLog[i].calls <= 1
                 /\ reqLog[i].calls = 1 =>
                      /\ el.link = "href"
                      /\ ~StaleAt(el.updated, runStart, hours)
                 /\ es[i].LinkedXMLData.kind # "none" => reqLog[i].calls = 1
                 /\ StaleAt(el.updated, runStart, hours) =>
                      /\ es[i].LinkedXMLData = NoBytes
                      /\ es[i].LinkedXMLUrl = None
                      /\ es[i].LinkedXMLError = Unset

\* fetch_feed returned a list of two entries: the first out of the window
\* with a link, not requested; the second requested, its request failed
C11_Witness ==
    /\ pc = "fetched" /\ C11_FeedFetched
    /\ Len(reqLog) = 2 /\ Len(Entries) = 2
    /\ StaleAt(reqLog[1].el.updated, runStart, hours)
    /\ reqLog[1].link = "href" /\ reqLog[1].calls = 0
    /\ reqLog[2].calls = 1 /\ Entries[2].LinkedXMLError \in RequestErrors

====
